---------------------------- MODULE Spec2Model ----------------------------
(***************************************************************************)
(* A model of ts-helper (src/src/index.ts): the configuration resolver     *)
(* readConfigFile, the project graph builder readProjects, addRootFiles,   *)
(* the extractor buildDependenciesForProject, the scheduler                *)
(* processProjects and the tail of main (output file, cycle detection).    *)
(*                                                                         *)
(* A path is a sequence of atoms.  An atom is a piece of a path string     *)
(* that is never split further: the separator "/", a name, an extension    *)
(* such as ".json".  String operations of the code (startsWith,            *)
(* path.resolve, path.dirname, split) are modelled on these sequences, so  *)
(* "/a2/v.ts" does start with "/a" although it is not inside directory /a. *)
(***************************************************************************)
EXTENDS Naturals, Sequences, FiniteSets, TLC

VARIABLES
    world,          \* the file system and the command line: never changes
    pc,             \* position of main
    entryIdx,       \* index of the --project argument main is reading
    stack,          \* call stack of readProjects
    projectInfos,   \* the Map projectInfos, as a sequence in insertion order
    importedFiles,  \* the Map importedFiles, as a function file -> Imports
    projectsDone,   \* processProjects: the set projectsDone
    passIdx,        \* processProjects: position of the inner for loop
    allDone,        \* processProjects: the flag allDone
    buildLog,       \* history: the projects given to buildDependenciesForProject
    outputWritten,  \* whether fs.writeFileSync has written the output file
    report,         \* what cycle detection printed, or NoReport
    configOut       \* result of a stand-alone readConfigFile call

vars == <<world, pc, entryIdx, stack, projectInfos, importedFiles, projectsDone,
          passIdx, allDone, buildLog, outputWritten, report, configOut>>

-----------------------------------------------------------------------------
(* Bounds of the model *)

\* number of configurations in an "extends" chain
MaxChain == 3
\* number of import edges between the source files of a world
MaxEdges == 4
\* depth of the readProjects recursion at which the engine's stack is exhausted
MaxStack == 5

-----------------------------------------------------------------------------
(* Paths *)

Sep == "/"

\* p.startsWith(d)
StartsWith(p, d) ==
    /\ Len(d) <= Len(p)
    /\ SubSeq(p, 1, Len(d)) = d

\* p.split(path.sep): the segments between separators, empty ones included
RECURSIVE Split(_)
Split(p) ==
    IF p = <<>> THEN << <<>> >>
    ELSE LET r == Split(Tail(p))
         IN  IF Head(p) = Sep THEN << <<>> >> \o r
             ELSE << <<Head(p)>> \o Head(r) >> \o Tail(r)

\* the absolute path made of the given segments
RECURSIVE Join(_)
Join(segs) ==
    IF segs = <<>> THEN <<>>
    ELSE <<Sep>> \o Head(segs) \o Join(Tail(segs))

\* resolution of "", "." and ".." segments, left to right
RECURSIVE NormSegs(_, _)
NormSegs(segs, acc) ==
    IF segs = <<>> THEN acc
    ELSE LET s == Head(segs)
         IN  IF s = <<>> \/ s = <<".">> THEN NormSegs(Tail(segs), acc)
             ELSE IF s = <<"..">>
                  THEN NormSegs(Tail(segs),
                                IF acc = <<>> THEN acc
                                ELSE SubSeq(acc, 1, Len(acc) - 1))
                  ELSE NormSegs(Tail(segs), Append(acc, s))

Normalize(p) ==
    LET segs == NormSegs(Split(p), <<>>)
    IN  IF segs = <<>> THEN <<Sep>> ELSE Join(segs)

IsAbsolute(p) == p # <<>> /\ p[1] = Sep

\* path.resolve(base, p), base absolute
PathResolve(base, p) ==
    Normalize(IF IsAbsolute(p) THEN p ELSE base \o <<Sep>> \o p)

\* path.dirname(p), p absolute and normalized
Dirname(p) ==
    LET segs == NormSegs(Split(p), <<>>)
    IN  IF Len(segs) <= 1 THEN <<Sep>>
        ELSE Join(SubSeq(segs, 1, Len(segs) - 1))

\* ts.resolveProjectReferencePath: a path with extension .json is the
\* configuration file, any other path is a directory holding tsconfig.json
ResolveProjectReferencePath(p) ==
    IF p # <<>> /\ p[Len(p)] = ".json" THEN p
    ELSE p \o <<Sep, "tsconfig", ".json">>

-----------------------------------------------------------------------------
(* Raw configuration files: what ts.readConfigFile(...).config holds.  An   *)
(* optional value is a sequence of length at most one: <<>> is undefined.   *)

Undefined == <<>>
Some(v) == <<v>>
IsDefined(o) == o # <<>>

RawConfig(ext, refs, opts, incl) ==
    [extends |-> ext, references |-> refs, compilerOptions |-> opts,
     include |-> incl]

\* the spread with its operands exchanged: an inherited key wins
MergeOptionsBaseWins(base, own) ==
    [k \in DOMAIN base \cup DOMAIN own |->
        IF k \in DOMAIN base THEN base[k] ELSE own[k]]

\* { ...base, ...own }
MergeOptions(base, own) ==
    [k \in DOMAIN base \cup DOMAIN own |->
        IF k \in DOMAIN own THEN own[k] ELSE base[k]]

\* the inherited references put in front of the own ones
PushReferencesInheritedFirst(own, inherited) == inherited \o own

\* own.push(...inherited)
PushReferences(own, inherited) == own \o inherited

\* config.references?.map(r => resolve(r.path)) ?? []
ResolveAll(projectDir, refs) ==
    [i \in 1..Len(refs) |-> PathResolve(projectDir, refs[i])]

RECURSIVE ReadConfigFile(_, _)
ReadConfigFile(configs, configPath) ==
    LET config     == configs[configPath]
        projectDir == Dirname(configPath)
        own        == ResolveAll(projectDir, config.references)
        hasBase    == IsDefined(config.extends)
        baseConfig == ReadConfigFile(configs, PathResolve(projectDir, config.extends[1]))
        \* only the string entries of an "include" array are kept
        include    == IF IsDefined(config.include)
                      THEN Some(SelectSeq(config.include[1], LAMBDA x : x.isString))
                      ELSE Undefined
    IN  [projectDir |-> projectDir,
         compilerOptionsJSON |->
            MergeOptions(IF hasBase THEN baseConfig.compilerOptionsJSON ELSE <<>>,
                         config.compilerOptions),
         givenProjectReferences |->
            IF hasBase THEN PushReferences(own, baseConfig.givenProjectReferences)
            ELSE own,
         include |-> include]

-----------------------------------------------------------------------------
(* Worlds of the stand-alone readConfigFile specification: one "extends"   *)
(* chain of up to MaxChain configurations.  The first lives in /a, the     *)
(* others in /b, so relative references of a base resolve against /b.      *)

OptionKeys == {"strict", "target"}
OptionValues == {"v1", "v2"}
OptionSets == UNION {[D -> OptionValues] : D \in SUBSET OptionKeys}

RefChoices == { <<>>,
                << <<"..", Sep, "b">> >>,
                << <<".", Sep, "s">>, <<"..", Sep, "b">> >> }

ChainPath(i) ==
    IF i = 1 THEN <<Sep, "a", Sep, "tsconfig", ".json">>
    ELSE <<Sep, "b", Sep, "base", ToString(i), ".json">>

\* the "extends" entry of the i-th configuration, relative to its directory
ChainExtends(i) ==
    IF i = 1 THEN <<"..", Sep, "b", Sep, "base", ToString(2), ".json">>
    ELSE <<".", Sep, "base", ToString(i + 1), ".json">>

ChainConfigs(n, o, r) ==
    [p \in {ChainPath(i) : i \in 1..n} |->
        LET i == CHOOSE j \in 1..n : ChainPath(j) = p
        IN  RawConfig(IF i < n THEN Some(ChainExtends(i)) ELSE Undefined,
                      r[i], o[i], Undefined)]

EmptyWorld ==
    [configs |-> <<>>, files |-> {}, edges |-> {}, entries |-> <<>>,
     roots |-> Undefined, packageRegexes |-> {}, output |-> FALSE,
     detectCycles |-> FALSE]

NoReport == [found |-> FALSE, count |-> 0, cycle |-> <<>>]

InitConfig ==
    /\ \E n \in 1..MaxChain :
         \E o \in [1..n -> OptionSets], r \in [1..n -> RefChoices] :
            world = [EmptyWorld EXCEPT !.configs = ChainConfigs(n, o, r)]
    /\ pc = "config"
    /\ entryIdx = 1
    /\ stack = <<>>
    /\ projectInfos = <<>>
    /\ importedFiles = <<>>
    /\ projectsDone = {}
    /\ passIdx = 1
    /\ allDone = TRUE
    /\ buildLog = <<>>
    /\ outputWritten = FALSE
    /\ report = NoReport
    /\ configOut = Undefined

\* readConfigFile applied to the head of the chain
CallReadConfigFile ==
    /\ pc = "config"
    /\ configOut' = Some(ReadConfigFile(world.configs, ChainPath(1)))
    /\ pc' = "configDone"
    /\ UNCHANGED <<world, entryIdx, stack, projectInfos, importedFiles,
                   projectsDone, passIdx, allDone, buildLog, outputWritten,
                   report>>

NextConfig == CallReadConfigFile

SpecConfig == InitConfig /\ [][NextConfig]_vars

-----------------------------------------------------------------------------
(* Worlds of the whole program: configuration files, source files with     *)
(* their import statements, and the command line.                          *)

Kinds == {"strong", "typesOnly", "lazy"}

Dir(name) == <<Sep, name>>
DirA  == Dir("a")
DirB  == Dir("b")
DirC  == Dir("c")
DirS  == <<Sep, "a", Sep, "s">>
\* a sibling of /a whose name starts with the name of /a
DirA2 == <<Sep, "a", "2">>

Tsconfig(d) == d \o <<Sep, "tsconfig", ".json">>
SourceFile(d, name) == d \o <<Sep, name, ".ts">>

Ax  == SourceFile(DirA, "x")
Ay  == SourceFile(DirA, "y")
Az  == SourceFile(DirA, "z")
Bw  == SourceFile(DirB, "w")
Cw  == SourceFile(DirC, "w")
Sy  == SourceFile(DirS, "y")
A2v == SourceFile(DirA2, "v")
\* a file of a third-party package, a file of an output directory, a file that
\* matches the user's package regex, and a file outside every project
Pm  == SourceFile(<<Sep, "a", Sep, "node_modules", Sep, "m">>, "m")
Oo  == SourceFile(<<Sep, "a", Sep, "out">>, "o")
Gg  == SourceFile(<<Sep, "a", Sep, "gen">>, "g")
Qu  == SourceFile(Dir("q"), "u")

Up(name) == <<"..", Sep, name>>
Cfg(refs, opts) == RawConfig(Undefined, refs, opts, Undefined)
NoOpts == <<>>
OutOpts == [outDir |-> <<"out">>]
BadOpts == [strict |-> "bad"]

Layout(configs, entries, sources, files, roots, regexes) ==
    [configs |-> configs, entries |-> entries, sources |-> sources,
     files |-> files, roots |-> roots, packageRegexes |-> regexes]

\* one project, three files
LayoutSingle ==
    Layout(Tsconfig(DirA) :> Cfg(<<>>, NoOpts),
           <<DirA>>, {Ax, Ay, Az}, {Ax, Ay, Az}, Some(<<Ax>>), {})

\* two entry projects that declare no reference to each other; /a/y.ts holds
\* no import
LayoutTwoEntries ==
    Layout(Tsconfig(DirA) :> Cfg(<<>>, NoOpts) @@ Tsconfig(DirB) :> Cfg(<<>>, NoOpts),
           <<DirA, DirB>>, {Ax, Bw}, {Ax, Ay, Bw}, Some(<<Ax, Bw>>), {})

\* "app" /a references "core" /b, which emits into /b/out
LayoutAppCore ==
    Layout(Tsconfig(DirA) :> Cfg(<<Up("b")>>, NoOpts)
           @@ Tsconfig(DirB) :> Cfg(<<>>, OutOpts),
           <<DirA>>, {Ax, Bw}, {Ax, Bw}, Some(<<Ax>>), {})

\* /a/s lies inside /a; the outer project is registered first, or last
LayoutNestedOuterFirst ==
    Layout(Tsconfig(DirA) :> Cfg(<<>>, NoOpts) @@ Tsconfig(DirS) :> Cfg(<<>>, NoOpts),
           <<DirA, DirS>>, {Ax, Sy}, {Ax, Sy}, Some(<<Ax, Sy>>), {})

LayoutNestedInnerFirst ==
    Layout(Tsconfig(DirA) :> Cfg(<<>>, NoOpts) @@ Tsconfig(DirS) :> Cfg(<<>>, NoOpts),
           <<Tsconfig(DirS), DirA>>, {Ax, Sy}, {Ax, Sy}, Some(<<Sy, Ax>>), {})

\* /a and its sibling /a2
LayoutSibling ==
    Layout(Tsconfig(DirA) :> Cfg(<<>>, NoOpts) @@ Tsconfig(DirA2) :> Cfg(<<>>, NoOpts),
           <<DirA, DirA2>>, {Ax, A2v}, {Ax, A2v}, Some(<<Ax>>), {})

\* /a references /b and /a/s, which both reference /c (once as a directory,
\* once as a file); /c is an entry point too
LayoutDiamond ==
    Layout(Tsconfig(DirA) :> Cfg(<<Up("b"), <<".", Sep, "s">> >>, NoOpts)
           @@ Tsconfig(DirB) :> Cfg(<<Up("c")>>, NoOpts)
           @@ Tsconfig(DirS) :> Cfg(<< <<"..", Sep, "..", Sep, "c", Sep, "tsconfig", ".json">> >>, NoOpts)
           @@ Tsconfig(DirC) :> Cfg(<<>>, OutOpts),
           <<DirA, DirC>>, {Ax, Cw}, {Ax, Cw}, Some(<<Ax>>), {})

\* /a references /b and /c, /b references /c
LayoutChain ==
    Layout(Tsconfig(DirA) :> Cfg(<<Up("b"), Up("c")>>, NoOpts)
           @@ Tsconfig(DirB) :> Cfg(<<Up("c")>>, OutOpts)
           @@ Tsconfig(DirC) :> Cfg(<<>>, OutOpts),
           <<DirA>>, {Ax, Bw}, {Ax, Bw}, Some(<<Ax>>), {})

\* /a and /b reference each other
LayoutReferenceCycle ==
    Layout(Tsconfig(DirA) :> Cfg(<<Up("b")>>, NoOpts)
           @@ Tsconfig(DirB) :> Cfg(<<Up("a")>>, NoOpts),
           <<DirA>>, {Ax, Bw}, {Ax, Bw}, Some(<<Ax>>), {})

\* the options of the referenced project /b, or of the entry /a, are invalid
LayoutBadReference ==
    Layout(Tsconfig(DirA) :> Cfg(<<Up("b")>>, NoOpts)
           @@ Tsconfig(DirB) :> Cfg(<<>>, BadOpts),
           <<DirA>>, {Ax}, {Ax}, Some(<<Ax>>), {})

LayoutBadEntry ==
    Layout(Tsconfig(DirA) :> Cfg(<<Up("b")>>, BadOpts)
           @@ Tsconfig(DirB) :> Cfg(<<>>, NoOpts),
           <<DirA>>, {Ax}, {Ax}, Some(<<Ax>>), {})

\* one project with an output directory and a package regex; its file may
\* import a package file, an output file, a regex-matched file and a file that
\* no project owns
LayoutExtras ==
    Layout(Tsconfig(DirA) :> Cfg(<<>>, OutOpts),
           <<DirA>>, {Ax}, {Ax, Ay, Pm, Oo, Gg, Qu}, Some(<<Ax>>), {<<"gen">>})

\* the same project given twice, as a directory and as a file; no --root: the
\* root files come from "include", which holds a string and a non-string
\* entry; the configuration inherits a reference to /b that it also declares
LayoutInclude ==
    Layout(Tsconfig(DirA) :>
               RawConfig(Some(<<"..", Sep, "b", Sep, "base", ".json">>),
                         <<Up("b")>>, NoOpts,
                         Some(<< [isString |-> TRUE, text |-> <<".">>],
                                 [isString |-> FALSE, text |-> <<"s">>] >>))
           @@ <<Sep, "b", Sep, "base", ".json">> :> Cfg(<< <<".">> >>, OutOpts)
           @@ Tsconfig(DirB) :> Cfg(<<>>, NoOpts),
           <<DirA, Tsconfig(DirA)>>, {Ax, Bw}, {Ax, Bw}, Undefined, {})

\* /b references /a/s, a project nested in the directory of /a; /a is an entry
\* point too and is registered first
LayoutNestedReferenced ==
    Layout(Tsconfig(DirA) :> Cfg(<<>>, NoOpts)
           @@ Tsconfig(DirS) :> Cfg(<<>>, OutOpts)
           @@ Tsconfig(DirB) :> Cfg(<< <<"..", Sep, "a", Sep, "s">> >>, NoOpts),
           <<DirA, DirB>>, {Bw}, {Bw, Sy}, Some(<<Bw>>), {})

Layouts ==
    { LayoutSingle, LayoutTwoEntries, LayoutAppCore, LayoutNestedOuterFirst,
      LayoutNestedInnerFirst, LayoutSibling, LayoutDiamond, LayoutChain,
      LayoutReferenceCycle, LayoutBadReference, LayoutBadEntry, LayoutExtras,
      LayoutInclude, LayoutNestedReferenced }

\* the import statements a layout's files may hold; a module does not import
\* itself
EdgeUniverse(l) ==
    { [src |-> f, dst |-> g, kind |-> k] :
        f \in l.sources, g \in l.files, k \in Kinds } \
    { [src |-> f, dst |-> f, kind |-> k] : f \in l.sources, k \in Kinds }

Init ==
    /\ \E l \in Layouts, output \in BOOLEAN, detectCycles \in BOOLEAN :
         \E E \in SUBSET EdgeUniverse(l) :
            /\ Cardinality(E) <= MaxEdges
            /\ world = [configs |-> l.configs, files |-> l.files, edges |-> E,
                        entries |-> l.entries, roots |-> l.roots,
                        packageRegexes |-> l.packageRegexes,
                        output |-> output, detectCycles |-> detectCycles]
    /\ pc = "read"
    /\ entryIdx = 1
    /\ stack = <<>>
    /\ projectInfos = <<>>
    /\ importedFiles = <<>>
    /\ projectsDone = {}
    /\ passIdx = 1
    /\ allDone = TRUE
    /\ buildLog = <<>>
    /\ outputWritten = FALSE
    /\ report = NoReport
    /\ configOut = Undefined

-----------------------------------------------------------------------------
(* readProjects *)

\* main runs in the root directory
Cwd == <<Sep>>

\* lines 91-93: the canonical configuration path of a readProjects argument
CanonicalConfigPath(p) == ResolveProjectReferencePath(PathResolve(Cwd, p))

\* a lookup that never finds a project: no memoization
NoLookup(infos, configPath) == 0

\* projectInfos.get(configPath): the index of the entry, 0 for undefined
ProjectIndex(infos, configPath) ==
    IF \E i \in 1..Len(infos) : infos[i].configPath = configPath
    THEN CHOOSE i \in 1..Len(infos) : infos[i].configPath = configPath
    ELSE 0

\* ts.convertCompilerOptionsFromJson(...).errors.length > 0
ConvertErrors(json) ==
    \E k \in DOMAIN json \ {"outDir"} : json[k] = "bad"

\* line 105
OutDirOf(config) ==
    IF "outDir" \in DOMAIN config.compilerOptionsJSON
    THEN Some(PathResolve(config.projectDir, config.compilerOptionsJSON["outDir"]))
    ELSE Undefined

\* an activation of readProjects that has read its configuration (line 104)
\* and is mapping readProjects over givenProjectReferences (line 108)
NewFrame(configPath) ==
    LET config == ReadConfigFile(world.configs, configPath)
    IN  [configPath |-> configPath, config |-> config, outDir |-> OutDirOf(config),
         next |-> 1, refs |-> <<>>]

\* lines 120-128
NewProjectInfo(frame) ==
    [configPath |-> frame.configPath,
     projectDir |-> frame.config.projectDir,
     compilerOptionsJSON |-> frame.config.compilerOptionsJSON,
     givenProjectReferences |-> frame.config.givenProjectReferences,
     include |-> frame.config.include,
     outDir |-> frame.outDir,
     projectReferences |-> {frame.refs[i] : i \in 1..Len(frame.refs)},
     referencedFrom |-> {},
     rootFiles |-> {}]

\* projectInfos.set without the loop of lines 132-134
RegisterWithoutBackEdges(infos, info) == Append(infos, info)

\* lines 129-134: projectInfos.set, then the back-edges
Register(infos, info) ==
    LET added == Append(infos, info)
    IN  [i \in 1..Len(added) |->
            IF added[i].configPath \in info.projectReferences
            THEN [added[i] EXCEPT !.referencedFrom = @ \cup {info.configPath}]
            ELSE added[i]]

\* the caller of a returning activation takes the returned project
ReturnTo(stk, configPath) ==
    IF stk = <<>> THEN stk
    ELSE [stk EXCEPT ![Len(stk)] =
            [@ EXCEPT !.refs = Append(@, configPath), !.next = @ + 1]]

\* main calls readProjects for the next --project argument (lines 368-370);
\* an existing project is returned at once (lines 95-98)
MainReadProject ==
    /\ pc = "read"
    /\ stack = <<>>
    /\ entryIdx <= Len(world.entries)
    /\ LET configPath == CanonicalConfigPath(world.entries[entryIdx])
       IN  IF ProjectIndex(projectInfos, configPath) # 0
           THEN /\ entryIdx' = entryIdx + 1
                /\ UNCHANGED stack
           ELSE /\ stack' = <<NewFrame(configPath)>>
                /\ UNCHANGED entryIdx
    /\ UNCHANGED <<world, pc, projectInfos, importedFiles, projectsDone, passIdx,
                   allDone, buildLog, outputWritten, report, configOut>>

\* line 108: the running activation calls readProjects for its next reference
ReadReference ==
    /\ pc = "read"
    /\ stack # <<>>
    /\ LET top == stack[Len(stack)]
       IN  /\ top.next <= Len(top.config.givenProjectReferences)
           /\ LET configPath ==
                    CanonicalConfigPath(top.config.givenProjectReferences[top.next])
              IN  IF ProjectIndex(projectInfos, configPath) # 0
                  THEN /\ stack' = ReturnTo(stack, configPath)
                       /\ pc' = pc
                  ELSE IF Len(stack) >= MaxStack
                  THEN \* the recursion exhausts the call stack
                       /\ pc' = "overflow"
                       /\ UNCHANGED stack
                  ELSE /\ stack' = Append(stack, NewFrame(configPath))
                       /\ pc' = pc
    /\ UNCHANGED <<world, entryIdx, projectInfos, importedFiles, projectsDone,
                   passIdx, allDone, buildLog, outputWritten, report, configOut>>

\* the test of line 115 left out
ConfigErrorIgnored(frame) == FALSE

\* line 115: compilerOptions.errors.length > 0 for the activation's merged options
ConfigError(frame) == ConvertErrors(frame.config.compilerOptionsJSON)

\* lines 110-140: every reference is read; convert the options, register the
\* project, add the back-edges and return
ReadFinish ==
    /\ pc = "read"
    /\ stack # <<>>
    /\ LET top == stack[Len(stack)]
           rest == SubSeq(stack, 1, Len(stack) - 1)
       IN  /\ top.next > Len(top.config.givenProjectReferences)
           /\ IF ConfigError(top)
              THEN /\ pc' = "exit1"
                   /\ UNCHANGED <<stack, projectInfos, entryIdx>>
              ELSE /\ projectInfos' = Register(projectInfos, NewProjectInfo(top))
                   /\ stack' = ReturnTo(rest, top.configPath)
                   /\ entryIdx' = IF rest = <<>> THEN entryIdx + 1 ELSE entryIdx
                   /\ pc' = pc
    /\ UNCHANGED <<world, importedFiles, projectsDone, passIdx, allDone, buildLog,
                   outputWritten, report, configOut>>

-----------------------------------------------------------------------------
(* addRootFiles *)

\* the last matching project instead of the first
OwnerLastMatch(infos, file) ==
    IF \E i \in 1..Len(infos) : StartsWith(file, infos[i].projectDir)
    THEN CHOOSE i \in 1..Len(infos) :
            /\ StartsWith(file, infos[i].projectDir)
            /\ \A j \in (i + 1)..Len(infos) : ~StartsWith(file, infos[j].projectDir)
    ELSE 0

\* lines 163-169: the first project, in insertion order, whose projectDir is a
\* string prefix of the file; 0 when the loop finds none
Owner(infos, file) ==
    IF \E i \in 1..Len(infos) : StartsWith(file, infos[i].projectDir)
    THEN CHOOSE i \in 1..Len(infos) :
            /\ StartsWith(file, infos[i].projectDir)
            /\ \A j \in 1..(i - 1) : ~StartsWith(file, infos[j].projectDir)
    ELSE 0

\* the owner's root files replaced by the files given instead of extended
AddRootFilesReplacing(infos, files) ==
    [ok    |-> \A f \in files : Owner(infos, f) # 0,
     infos |-> [i \in 1..Len(infos) |->
                  IF \E f \in files : Owner(infos, f) = i
                  THEN [infos[i] EXCEPT !.rootFiles = {f \in files : Owner(infos, f) = i}]
                  ELSE infos[i]]]

\* lines 157-172: ok is FALSE when assert(found) fails for some file
AddRootFiles(infos, files) ==
    [ok    |-> \A f \in files : Owner(infos, f) # 0,
     infos |-> [i \in 1..Len(infos) |->
                  [infos[i] EXCEPT !.rootFiles =
                      @ \cup {f \in files : Owner(infos, f) = i}]]]

-----------------------------------------------------------------------------
(* buildDependenciesForProject *)

\* rx.test(p) for a regex that is a literal: the literal occurs in p
RegexTest(rx, p) ==
    \E i \in 1..Len(p) : i + Len(rx) - 1 <= Len(p) /\ SubSeq(p, i, i + Len(rx) - 1) = rx

\* lines 146-151
IsInPackage(p) ==
    LET dirs == Split(Dirname(p))
    IN  \/ \E i \in 1..Len(dirs) : dirs[i] = <<"node_modules">>
        \/ \E rx \in world.packageRegexes : RegexTest(rx, p)

\* line 196
AllOutDirs(infos) ==
    {infos[i].outDir[1] : i \in {j \in 1..Len(infos) : IsDefined(infos[j].outDir)}}

\* the output directories not looked at
ShouldIncludeIgnoringOutDirs(infos, p) == ~IsInPackage(p)

\* lines 201-203
ShouldInclude(infos, p) ==
    ~IsInPackage(p) /\ ~\E d \in AllOutDirs(infos) : StartsWith(p, d)

\* f lies inside directory d
InDir(f, d) == StartsWith(f, d \o <<Sep>>)

\* the projects a project references, directly or through other references
RECURSIVE ReferenceClosure(_, _)
ReferenceClosure(infos, paths) ==
    LET more == paths \cup
                UNION {infos[i].projectReferences :
                         i \in {j \in 1..Len(infos) : infos[j].configPath \in paths}}
    IN  IF more = paths THEN paths ELSE ReferenceClosure(infos, more)

\* The compiler replaces an imported source file of a referenced project by
\* that project's output declaration file, which lies in its output directory
\* or is not built: such a file brings no source file into the program.
Redirected(infos, i, f) ==
    \E j \in 1..Len(infos) :
        /\ infos[j].configPath \in ReferenceClosure(infos, infos[i].projectReferences)
        /\ InDir(f, infos[j].projectDir)

\* the compiler host loads a file that exists and is not in a package (lines
\* 177-191)
HostLoads(f) == f \in world.files /\ ~IsInPackage(f)

\* ts.createProgram(...).getSourceFiles(): the root files and every file they
\* import, directly or not, by any kind of import (lines 205-214)
RECURSIVE LoadImports(_, _, _)
LoadImports(infos, i, loaded) ==
    LET more == loaded \cup
                {e.dst : e \in {d \in world.edges :
                                   /\ d.src \in loaded
                                   /\ HostLoads(d.dst)
                                   /\ ~Redirected(infos, i, d.dst)}}
    IN  IF more = loaded THEN loaded ELSE LoadImports(infos, i, more)

ProgramFiles(infos, i) ==
    LoadImports(infos, i, {f \in infos[i].rootFiles : HostLoads(f)})

\* lines 230-235 and 238-280: the resolved, in-scope targets of the import
\* statements of kind k in file f
ImportTargets(infos, f, k) ==
    {e.dst : e \in {d \in world.edges :
                       /\ d.src = f /\ d.kind = k
                       /\ d.dst \in world.files
                       /\ ShouldInclude(infos, d.dst)}}

\* a target kept only in the first of strong, typesOnly, lazy that names it
ImportsOfDisjoint(infos, f) ==
    [strong    |-> ImportTargets(infos, f, "strong"),
     typesOnly |-> ImportTargets(infos, f, "typesOnly")
                      \ ImportTargets(infos, f, "strong"),
     lazy      |-> ImportTargets(infos, f, "lazy")
                      \ (ImportTargets(infos, f, "strong")
                            \cup ImportTargets(infos, f, "typesOnly"))]

\* lines 224-228 filled by the walk
ImportsOf(infos, f) ==
    [strong    |-> ImportTargets(infos, f, "strong"),
     typesOnly |-> ImportTargets(infos, f, "typesOnly"),
     lazy      |-> ImportTargets(infos, f, "lazy")]

AllTargets(imports) == imports.strong \cup imports.typesOnly \cup imports.lazy

\* lines 195-292.  The source files are distinct, so the assertion of line 221
\* fails for a file that an earlier call recorded; a file it fails for is not
\* walked.  The order of the source files decides which assertion fails first
\* when two can: both outcomes are kept.
BuildDependenciesForProject(infos, imported, i) ==
    LET program    == ProgramFiles(infos, i)
        duplicates == {f \in program : f \in DOMAIN imported}
        included   == {f \in program : ShouldInclude(infos, f)}
        targets    == UNION {AllTargets(ImportsOf(infos, f)) : f \in included}
        assigned   == AddRootFiles(infos, targets)
        ownerless  == \E f \in included \ duplicates :
                         \E t \in AllTargets(ImportsOf(infos, f)) : Owner(infos, t) = 0
    IN  [outcomes |-> IF duplicates = {} /\ ~ownerless THEN {"ok"}
                      ELSE (IF duplicates # {} THEN {"assertDuplicate"} ELSE {})
                           \cup (IF ownerless THEN {"assertNoOwner"} ELSE {}),
         program  |-> program,
         targets  |-> targets,
         infos    |-> assigned.infos,
         imported |-> imported @@ [f \in included |-> ImportsOf(infos, f)]]

-----------------------------------------------------------------------------
(* main, lines 372-387: the root files *)

\* glob.sync of <dir>/**/*.ts
GlobFiles(dir) ==
    {f \in world.files : InDir(f, dir) /\ f[Len(f)] = ".ts"}

IncludedFiles(info) ==
    IF IsDefined(info.include)
    THEN UNION {GlobFiles(PathResolve(info.projectDir, info.include[1][k].text)) :
                  k \in 1..Len(info.include[1])}
    ELSE {}

InitialRootFiles(infos) ==
    IF IsDefined(world.roots)
    THEN {PathResolve(Cwd, world.roots[1][k]) : k \in 1..Len(world.roots[1])}
    ELSE UNION {IncludedFiles(infos[i]) : i \in 1..Len(infos)}

\* every --project argument is read: assign the root files and enter
\* processProjects (line 303)
MainAddRootFiles ==
    /\ pc = "read"
    /\ stack = <<>>
    /\ entryIdx > Len(world.entries)
    /\ LET assigned == AddRootFiles(projectInfos, InitialRootFiles(projectInfos))
       IN  IF assigned.ok
           THEN /\ projectInfos' = assigned.infos
                /\ pc' = "process"
           ELSE /\ pc' = "assertNoOwner"
                /\ UNCHANGED projectInfos
    /\ projectsDone' = {}
    /\ passIdx' = 1
    /\ allDone' = TRUE
    /\ UNCHANGED <<world, entryIdx, stack, importedFiles, buildLog, outputWritten,
                   report, configOut>>

-----------------------------------------------------------------------------
(* processProjects *)

\* no wait for the referencing projects
EligibleAlways(infos, done, i) == TRUE

\* line 311, negated: no project that references this one is still to do
Eligible(infos, done, i) ==
    ~\E p \in infos[i].referencedFrom : p \notin done

\* the project is not recorded as done
MarkDoneOmitted(done, configPath) == done

\* line 318
MarkDone(done, configPath) == done \cup {configPath}

\* lines 309, 311: the project is done, or one that references it is not
ProcessSkip ==
    /\ pc = "process"
    /\ passIdx <= Len(projectInfos)
    /\ \/ projectInfos[passIdx].configPath \in projectsDone
       \/ ~Eligible(projectInfos, projectsDone, passIdx)
    /\ passIdx' = passIdx + 1
    /\ UNCHANGED <<world, pc, entryIdx, stack, projectInfos, importedFiles,
                   projectsDone, allDone, buildLog, outputWritten, report, configOut>>

\* lines 316-319
ProcessBuild ==
    /\ pc = "process"
    /\ passIdx <= Len(projectInfos)
    /\ projectInfos[passIdx].configPath \notin projectsDone
    /\ Eligible(projectInfos, projectsDone, passIdx)
    /\ buildLog' = Append(buildLog, projectInfos[passIdx].configPath)
    /\ LET built == BuildDependenciesForProject(projectInfos, importedFiles, passIdx)
       IN  \E outcome \in built.outcomes :
              IF outcome = "ok"
              THEN /\ projectInfos' = built.infos
                   /\ importedFiles' = built.imported
                   /\ projectsDone' = MarkDone(projectsDone, projectInfos[passIdx].configPath)
                   /\ allDone' = FALSE
                   /\ passIdx' = passIdx + 1
                   /\ pc' = pc
              ELSE /\ pc' = outcome
                   /\ UNCHANGED <<projectInfos, importedFiles, projectsDone, allDone,
                                  passIdx>>
    /\ UNCHANGED <<world, entryIdx, stack, outputWritten, report, configOut>>

\* line 322: a pass is over; leave the loop, or start the next pass
ProcessPassEnd ==
    /\ pc = "process"
    /\ passIdx > Len(projectInfos)
    /\ IF allDone
       THEN /\ pc' = "output"
            /\ UNCHANGED <<passIdx, allDone>>
       ELSE /\ passIdx' = 1
            /\ allDone' = TRUE
            /\ pc' = pc
    /\ UNCHANGED <<world, entryIdx, stack, projectInfos, importedFiles, projectsDone,
                   buildLog, outputWritten, report, configOut>>

-----------------------------------------------------------------------------
(* main, lines 395-429: the output file and cycle detection *)

\* the output file held back when two files import each other strongly
OutputOnlyWithoutCycle(imported) ==
    /\ world.output
    /\ ~\E n \in DOMAIN imported : \E m \in imported[n].strong :
          m \in DOMAIN imported /\ n \in imported[m].strong

\* line 395: outputFileName !== undefined
OutputRequested(imported) == world.output

\* lines 395-414
MainWriteOutput ==
    /\ pc = "output"
    /\ outputWritten' = OutputRequested(importedFiles)
    /\ pc' = "detect"
    /\ UNCHANGED <<world, entryIdx, stack, projectInfos, importedFiles, projectsDone,
                   passIdx, allDone, buildLog, report, configOut>>

\* the graph of the imports of every kind
AdjacencyAllImports(imported) ==
    [n \in DOMAIN imported |-> AllTargets(imported[n])]

\* line 417
Adjacency(imported) ==
    [n \in DOMAIN imported |-> imported[n].strong]

\* makeGraphFromEdges: a node per key and per target, an edge per target
MakeGraphFromEdges(adjacency) ==
    [nodes |-> DOMAIN adjacency \cup UNION {adjacency[n] : n \in DOMAIN adjacency},
     edges |-> UNION {{<<n, m>> : m \in adjacency[n]} : n \in DOMAIN adjacency}]

Last(p) == p[Len(p)]
Range(p) == {p[i] : i \in 1..Len(p)}

\* the paths of k distinct nodes along the edges
RECURSIVE SimplePaths(_, _)
SimplePaths(graph, k) ==
    IF k = 1 THEN {<<n>> : n \in graph.nodes}
    ELSE UNION {{Append(p, m) : m \in {n \in graph.nodes \ Range(p) :
                                          <<Last(p), n>> \in graph.edges}} :
                  p \in SimplePaths(graph, k - 1)}

\* the simple paths whose last node has an edge to the first
ClosedPaths(graph) ==
    {p \in UNION {SimplePaths(graph, k) : k \in 1..Cardinality(graph.nodes)} :
        <<Last(p), p[1]>> \in graph.edges}

Rotations(p) ==
    {[i \in 1..Len(p) |-> p[((i + k - 1) % Len(p)) + 1]] : k \in 0..(Len(p) - 1)}

\* getCycleNodesInGraph: the nodes that lie on a cycle; the empty set stands
\* for undefined
GetCycleNodesInGraph(graph) == UNION {Range(p) : p \in ClosedPaths(graph)}

\* getCyclesInGraph: every cycle among the given nodes, once (a cycle is the
\* set of the rotations of its node list)
GetCyclesInGraph(graph, cycleNodes) ==
    {Rotations(p) : p \in {q \in ClosedPaths(graph) : Range(q) \subseteq cycleNodes}}

CycleLength(c) == Len(CHOOSE p \in c : TRUE)

\* Math.max in place of Math.min
LongestLength(cycles) ==
    CHOOSE n \in {CycleLength(c) : c \in cycles} :
        \A c \in cycles : CycleLength(c) <= n

\* line 423
ShortestLength(cycles) ==
    CHOOSE n \in {CycleLength(c) : c \in cycles} :
        \A c \in cycles : n <= CycleLength(c)

\* lines 416-429; cycles.find returns the first cycle of the shortest length
\* in the library's order, which is not modelled: any of them
MainDetectCycles ==
    /\ pc = "detect"
    /\ LET graph      == MakeGraphFromEdges(Adjacency(importedFiles))
           cycleNodes == GetCycleNodesInGraph(graph)
           cycles     == GetCyclesInGraph(graph, cycleNodes)
       IN  IF world.detectCycles /\ cycleNodes # {}
           THEN /\ \E c \in {d \in cycles : CycleLength(d) = ShortestLength(cycles)} :
                      report' = [found |-> TRUE,
                                 count |-> Cardinality(cycles),
                                 cycle |-> CHOOSE p \in c : TRUE]
                /\ pc' = "exit1"
           ELSE /\ report' = NoReport
                /\ pc' = "done"
    /\ UNCHANGED <<world, entryIdx, stack, projectInfos, importedFiles, projectsDone,
                   passIdx, allDone, buildLog, outputWritten, configOut>>

Next ==
    \/ MainReadProject
    \/ ReadReference
    \/ ReadFinish
    \/ MainAddRootFiles
    \/ ProcessSkip
    \/ ProcessBuild
    \/ ProcessPassEnd
    \/ MainWriteOutput
    \/ MainDetectCycles

Spec == Init /\ [][Next]_vars

-----------------------------------------------------------------------------
(* C1, C2: the scheduler *)

RegisteredPaths == {projectInfos[i].configPath : i \in 1..Len(projectInfos)}

\* processProjects has returned to main
ProcessReturned ==
    \/ pc \in {"output", "detect", "done"}
    \/ pc = "exit1" /\ report.found

C2_EveryProjectExactlyOnce ==
    /\ \A i, j \in 1..Len(buildLog) : buildLog[i] = buildLog[j] => i = j
    /\ ProcessReturned => {buildLog[i] : i \in 1..Len(buildLog)} = RegisteredPaths

\* processProjects returned for the diamond of four projects
C2_Witness ==
    /\ pc = "output"
    /\ Len(projectInfos) = 4
    /\ Len(buildLog) = 4
    /\ \E k \in 1..4 : Cardinality(projectInfos[k].referencedFrom) = 2

-----------------------------------------------------------------------------
(* C3, C4, C10: cycle detection and the output file *)

StrongSuccessors(imported, nodes) ==
    UNION {imported[n].strong : n \in nodes \cap DOMAIN imported}

\* the files reached from the given ones by one or more strong imports
RECURSIVE StrongReach(_, _)
StrongReach(imported, reached) ==
    LET more == reached \cup StrongSuccessors(imported, reached)
    IN  IF more = reached THEN reached ELSE StrongReach(imported, more)

\* some file reaches itself through strong imports
StrongCycleExists ==
    \E n \in DOMAIN importedFiles :
        n \in StrongReach(importedFiles, importedFiles[n].strong)

\* main has run to its end, or has exited from cycle detection
MainEnded == pc = "done" \/ (pc = "exit1" /\ report.found)

\* C3: when main ends, a cycle is reported with exit code 1 exactly if
\* --detect-cycles is given and the strong sets of the map hold a cycle.
C3_ReportedIffStrongCycle ==
    /\ report.found => pc = "exit1"
    /\ MainEnded => (report.found <=> (world.detectCycles /\ StrongCycleExists))

\* a cycle of three files is reported
C3_Witness ==
    /\ pc = "exit1"
    /\ report.found
    /\ report.count = 1
    /\ Len(report.cycle) = 3

\* C4 as stated: a run that reports a cycle has written no output file, and
\* an output file is written only when cycle detection has found no cycle.
C4_NoOutputOnCycle ==
    /\ report.found => ~outputWritten
    /\ outputWritten => pc = "done"

\* C4: the output file is written when processProjects has returned, before
\* cycle detection and whatever it finds: from then on it is written exactly
\* if --output is given, also in a run that reports a cycle and exits with 1.
C4_OutputBeforeDetection ==
    /\ outputWritten => world.output /\ (pc \in {"detect", "done"} \/ (pc = "exit1" /\ report.found))
    /\ (pc \in {"detect", "done"} \/ (pc = "exit1" /\ report.found))
          => (outputWritten <=> world.output)

\* a cycle is reported and the output file is written
C4_Witness ==
    /\ pc = "exit1"
    /\ report.found
    /\ outputWritten

\* the cycles of the graph main builds
DetectedCycles ==
    LET graph == MakeGraphFromEdges(Adjacency(importedFiles))
    IN  GetCyclesInGraph(graph, GetCycleNodesInGraph(graph))

\* C10: a reported cycle is one of the enumerated cycles, none of which is
\* shorter, and the run exits with code 1.
C10_ReportedCycleIsShortest ==
    report.found =>
        /\ pc = "exit1"
        /\ \E c \in DetectedCycles : report.cycle \in c
        /\ \A c \in DetectedCycles : Len(report.cycle) <= CycleLength(c)
        /\ report.count = Cardinality(DetectedCycles)

\* two files import each other and lie on a cycle of three files too: the
\* cycle of length 2 is reported
C10_Witness ==
    /\ report.found
    /\ report.count = 2
    /\ Len(report.cycle) = 2
    /\ \E c \in DetectedCycles : CycleLength(c) = 3

-----------------------------------------------------------------------------
(* C5: addRootFiles *)

\* the call of addRootFiles(files) in this step leaves file f in the root
\* files of the first project whose projectDir it starts with and adds it to
\* no other project
AddedToFirstMatchOnly(f) ==
    \E i \in 1..Len(projectInfos) :
        /\ StartsWith(f, projectInfos[i].projectDir)
        /\ \A j \in 1..(i - 1) : ~StartsWith(f, projectInfos[j].projectDir)
        /\ f \in projectInfos'[i].rootFiles
        /\ \A j \in 1..Len(projectInfos) \ {i} :
              f \in projectInfos'[j].rootFiles => f \in projectInfos[j].rootFiles

AddRootFilesTotal(files) ==
    /\ Len(projectInfos') = Len(projectInfos)
    /\ IF pc' = "assertNoOwner"
       THEN \E f \in files :
               \A i \in 1..Len(projectInfos) : ~StartsWith(f, projectInfos[i].projectDir)
       ELSE pc' = "assertDuplicate" \/ \A f \in files : AddedToFirstMatchOnly(f)

\* C5: every step that calls addRootFiles (main for the root files,
\* buildDependenciesForProject for the import targets) either puts each file
\* into the first matching project and into no other, or fails an assertion;
\* the owner assertion fails only for a file no project matches.
C5_AddRootFilesTotal ==
    [][ /\ (pc = "read" /\ pc' # "read" /\ stack = <<>>) =>
              AddRootFilesTotal(InitialRootFiles(projectInfos))
        /\ (pc = "process" /\ buildLog' # buildLog) =>
              AddRootFilesTotal(
                  BuildDependenciesForProject(projectInfos, importedFiles, passIdx).targets)
      ]_vars

\* a file under two nested project directories is a root file of the project
\* registered first and not of the other
C5_Witness ==
    /\ pc = "process"
    /\ \E i, j \in 1..Len(projectInfos) :
          /\ i < j
          /\ \E f \in projectInfos[i].rootFiles :
                /\ StartsWith(f, projectInfos[i].projectDir)
                /\ StartsWith(f, projectInfos[j].projectDir)
                /\ f \notin projectInfos[j].rootFiles

-----------------------------------------------------------------------------
(* C6: the registry *)

\* C6: the registry never holds two projects with one configuration path,
\* every reference a project or a running readProjects call took is a
\* registered project, and no step removes an entry or changes its
\* configuration path.
C6_OneProjectPerPath ==
    /\ [](/\ \A i, j \in 1..Len(projectInfos) :
                projectInfos[i].configPath = projectInfos[j].configPath => i = j
          /\ \A i \in 1..Len(projectInfos) :
                projectInfos[i].projectReferences \subseteq RegisteredPaths
          /\ \A i \in 1..Len(stack) : Range(stack[i].refs) \subseteq RegisteredPaths)
    /\ [][ /\ Len(projectInfos') >= Len(projectInfos)
           /\ \A i \in 1..Len(projectInfos) :
                 projectInfos'[i].configPath = projectInfos[i].configPath ]_vars

\* the diamond is read: /c was reached through /b and through /a/s and was
\* then given as an entry point, and is registered once
C6_Witness ==
    /\ pc = "process"
    /\ Len(world.entries) = 2
    /\ Len(projectInfos) = 4
    /\ projectInfos[1].configPath = CanonicalConfigPath(world.entries[2])
    /\ Cardinality(projectInfos[1].referencedFrom) = 2

-----------------------------------------------------------------------------
(* C7: the duplicate-record assertion *)

\* C7 as stated: the assertion of line 221 never fails.  (The worlds whose
\* references form a cycle never reach buildDependenciesForProject.)
C7_NoDuplicateRecord == pc # "assertDuplicate"

-----------------------------------------------------------------------------
(* C8, C9: readConfigFile on "extends" chains *)

\* the configurations of the chain that starts at path p, nearest first
RECURSIVE ChainOf(_, _)
ChainOf(configs, p) ==
    LET c == configs[p]
    IN  <<p>> \o (IF IsDefined(c.extends)
                  THEN ChainOf(configs, PathResolve(Dirname(p), c.extends[1]))
                  ELSE <<>>)

\* the keys some configuration of the chain declares
ChainKeys(configs, chain) ==
    UNION {DOMAIN configs[chain[i]].compilerOptions : i \in 1..Len(chain)}

\* the value the nearest configuration that declares k gives it
NearestValue(configs, chain, k) ==
    LET i == CHOOSE j \in 1..Len(chain) :
                /\ k \in DOMAIN configs[chain[j]].compilerOptions
                /\ \A m \in 1..(j - 1) :
                      k \notin DOMAIN configs[chain[m]].compilerOptions
    IN  configs[chain[i]].compilerOptions[k]

\* the declared references of every configuration of the chain, each resolved
\* against its own directory, nearest configuration first
RECURSIVE ChainReferences(_, _)
ChainReferences(configs, chain) ==
    IF chain = <<>> THEN <<>>
    ELSE ResolveAll(Dirname(Head(chain)), configs[Head(chain)].references)
         \o ChainReferences(configs, Tail(chain))

\* C8: the merged compilerOptionsJSON maps every key declared in the chain to
\* the value of the nearest configuration declaring it (a child's key shadows
\* every ancestor's, keys only ancestors declare are kept), and has no other key.
C8_NearestOptionWins ==
    pc = "configDone" =>
        LET chain == ChainOf(world.configs, ChainPath(1))
            json  == configOut[1].compilerOptionsJSON
        IN  /\ DOMAIN json = ChainKeys(world.configs, chain)
            /\ \A k \in DOMAIN json : json[k] = NearestValue(world.configs, chain, k)

\* a 3-level chain in which the child and the grandparent disagree on a key the
\* middle configuration does not declare, and another key only an ancestor has
C8_Witness ==
    /\ pc = "configDone"
    /\ Len(ChainOf(world.configs, ChainPath(1))) = 3
    /\ LET c1 == world.configs[ChainPath(1)].compilerOptions
           c2 == world.configs[ChainPath(2)].compilerOptions
           c3 == world.configs[ChainPath(3)].compilerOptions
       IN  /\ DOMAIN c1 = {"strict"} /\ DOMAIN c2 = {"target"}
           /\ DOMAIN c3 = {"strict", "target"}
           /\ c1["strict"] # c3["strict"] /\ c2["target"] # c3["target"]
           /\ configOut[1].compilerOptionsJSON["strict"] = c1["strict"]
           /\ configOut[1].compilerOptionsJSON["target"] = c2["target"]

\* C9: givenProjectReferences is the configuration's own references in
\* declaration order followed by those of its base, recursively, nothing removed.
C9_OwnThenInherited ==
    pc = "configDone" =>
        configOut[1].givenProjectReferences =
            ChainReferences(world.configs, ChainOf(world.configs, ChainPath(1)))

\* the child declares ../b (= /b) and its base, which lives in /b, declares
\* ../b too (= /b): the result holds /b twice
C9_Witness ==
    /\ pc = "configDone"
    /\ Len(ChainOf(world.configs, ChainPath(1))) >= 2
    /\ world.configs[ChainPath(1)].references = << <<".", Sep, "s">>, <<"..", Sep, "b">> >>
    /\ world.configs[ChainPath(2)].references = << <<"..", Sep, "b">> >>
    /\ LET g == configOut[1].givenProjectReferences
       IN  /\ Len(g) >= 3
           /\ g[1] = <<Sep, "a", Sep, "s">>
           /\ g[2] = <<Sep, "b">>
           /\ g[3] = <<Sep, "b">>

-----------------------------------------------------------------------------
(* C11: reference cycles in readProjects *)

\* the configuration paths of the activations of readProjects now running,
\* outermost first: the projects under construction
UnderConstruction == [i \in 1..Len(stack) |-> stack[i].configPath]

\* C11 as stated: readProjects never re-enters the construction of a project
\* that is still under construction (no configuration path is held by two
\* running activations), so its recursion stays bounded by the number of
\* configurations and never exhausts the call stack.
C11_NoReentry ==
    /\ \A i, j \in 1..Len(stack) :
          UnderConstruction[i] = UnderConstruction[j] => i = j
    /\ Len(stack) <= Cardinality(DOMAIN world.configs)
    /\ pc # "overflow"

-----------------------------------------------------------------------------
(* C12: compiler-options conversion errors *)

\* the run has ended at line 117 (the other exit with code 1 reports a cycle)
ConfigErrorExit == pc = "exit1" /\ ~report.found

\* the activation whose options are being converted: every reference is read
ConvertingTop ==
    /\ pc = "read"
    /\ stack # <<>>
    /\ stack[Len(stack)].next >
          Len(stack[Len(stack)].config.givenProjectReferences)

\* C12: a project whose merged options the conversion rejects is never
\* registered; the activation that converts such options ends the run with exit
\* code 1, and at that exit the failing project is in no registry entry and in
\* no referencedFrom set, no extraction has run, nothing is recorded in the
\* global map and no output file is written.  A run gets past readProjects only
\* with every entry point and every reference registered.
C12_ConfigErrorIsFatal ==
    /\ [](\A i \in 1..Len(projectInfos) :
             ~ConvertErrors(projectInfos[i].compilerOptionsJSON))
    /\ [](ConfigErrorExit =>
             LET failing == stack[Len(stack)].configPath
             IN  /\ failing \notin RegisteredPaths
                 /\ \A i \in 1..Len(projectInfos) :
                       failing \notin projectInfos[i].referencedFrom
                 /\ buildLog = <<>>
                 /\ importedFiles = <<>>
                 /\ \A i \in 1..Len(projectInfos) : projectInfos[i].rootFiles = {}
                 /\ ~outputWritten)
    /\ [](pc \notin {"read", "exit1", "overflow"} =>
             /\ \A e \in 1..Len(world.entries) :
                   CanonicalConfigPath(world.entries[e]) \in RegisteredPaths
             /\ \A i \in 1..Len(projectInfos) :
                   projectInfos[i].projectReferences \subseteq RegisteredPaths)
    /\ [][(ConvertingTop
             /\ ConvertErrors(stack[Len(stack)].config.compilerOptionsJSON))
          => (ConfigErrorExit' /\ projectInfos' = projectInfos)]_vars

\* the entry project's options are rejected after its reference was read and
\* registered: the run has ended, and the registered reference has no back-edge
C12_Witness ==
    /\ ConfigErrorExit
    /\ Len(stack) = 1
    /\ stack[1].refs # <<>>
    /\ projectInfos # <<>>
    /\ \A i \in 1..Len(projectInfos) : projectInfos[i].referencedFrom = {}

-----------------------------------------------------------------------------
(* C13, C14: a project's root files and its extraction *)

\* buildDependenciesForProject has been invoked on project k and has returned
Extracted(k) == projectInfos[k].configPath \in projectsDone

\* C13 as stated: once buildDependenciesForProject(P) has been invoked, no step
\* of the run (each later step that touches root files is the extraction of a
\* different project) adds a file to P.rootFiles.
C13_RootFilesCompleteAtExtraction ==
    [][\A k \in 1..Len(projectInfos) :
          Extracted(k) => projectInfos'[k].rootFiles \subseteq projectInfos[k].rootFiles]_vars

\* a step in which buildDependenciesForProject runs on project passIdx and returns
ExtractionStep == pc = "process" /\ projectsDone' # projectsDone

\* C14 as stated: the root files of the project under extraction are the same
\* when buildDependenciesForProject returns as when it was invoked.
C14_OwnRootFilesUnchanged ==
    [][ExtractionStep =>
          projectInfos'[passIdx].rootFiles = projectInfos[passIdx].rootFiles]_vars

\* the import targets recorded by the step for the files it adds to the global map
RecordedTargets ==
    UNION {importedFiles'[f][k] :
              f \in DOMAIN importedFiles' \ DOMAIN importedFiles, k \in Kinds}

\* C14, amended: during the extraction of P, P.rootFiles only grows, and the
\* files it gains are exactly the import targets recorded by this extraction
\* whose first prefix-matching project is P.
C14_OwnRootFilesOnlyGrow ==
    [][ExtractionStep =>
          LET before == projectInfos[passIdx].rootFiles
              after  == projectInfos'[passIdx].rootFiles
          IN  /\ before \subseteq after
              /\ after \ before =
                    {t \in RecordedTargets \ before :
                        /\ StartsWith(t, projectInfos[passIdx].projectDir)
                        /\ \A j \in 1..(passIdx - 1) :
                              ~StartsWith(t, projectInfos[j].projectDir)}]_vars

\* the only extraction so far was that of the single project, given one root
\* file, and its root files now hold a second file, recorded in the global map
C14_Witness ==
    /\ Len(projectInfos) = 1
    /\ Len(buildLog) = 1
    /\ Extracted(1)
    /\ IsDefined(world.roots) /\ Len(world.roots[1]) = 1
    /\ Cardinality(projectInfos[1].rootFiles) >= 2
    /\ projectInfos[1].rootFiles \subseteq DOMAIN importedFiles

-----------------------------------------------------------------------------
(* C15, C16: the edge sets of the global map *)

\* C15 as stated: the three edge sets of every recorded file are pairwise
\* disjoint.
C15_EdgeSetsDisjoint ==
    \A f \in DOMAIN importedFiles :
        /\ importedFiles[f].strong \cap importedFiles[f].typesOnly = {}
        /\ importedFiles[f].strong \cap importedFiles[f].lazy = {}
        /\ importedFiles[f].typesOnly \cap importedFiles[f].lazy = {}

\* the existing files the source text of f names in an import of kind k
DeclaredTargets(f, k) ==
    {e.dst : e \in {d \in world.edges :
                       d.src = f /\ d.kind = k /\ d.dst \in world.files}}

\* C15, amended: each edge set of a recorded file holds exactly the in-scope
\* files its source names in an import of that set's kind, whatever the other
\* kinds name; a module imported in several kinds is in each of their sets.
C15_EdgeSetsByKind ==
    \A f \in DOMAIN importedFiles :
        \A k \in Kinds :
            importedFiles[f][k] =
                {t \in DeclaredTargets(f, k) :
                    /\ ~IsInPackage(t)
                    /\ \A i \in 1..Len(projectInfos) :
                          IsDefined(projectInfos[i].outDir) =>
                              ~StartsWith(t, projectInfos[i].outDir[1])}

\* a recorded file names one module in an ordinary import, an `import type`
\* and an import() call, and the module is in all three of its sets
C15_Witness ==
    \E f \in DOMAIN importedFiles :
        \E t \in importedFiles[f].strong :
            /\ t \in importedFiles[f].typesOnly
            /\ t \in importedFiles[f].lazy

\* every key of the global map and every member of an edge set
GraphPaths ==
    DOMAIN importedFiles
        \cup UNION {importedFiles[f][k] : f \in DOMAIN importedFiles, k \in Kinds}

\* a directory component of p is named node_modules
InNodeModules(p) ==
    \E i \in 1..(Len(p) - 1) : p[i] = "node_modules" /\ p[i + 1] = Sep

\* C16: every key of the global map and every path in one of its edge sets is
\* in scope: no directory above it is named node_modules, no --package regex
\* matches it, and it lies in the output directory of no registered project.
C16_GraphPathsInScope ==
    \A p \in GraphPaths :
        /\ ~InNodeModules(p)
        /\ \A rx \in world.packageRegexes : ~RegexTest(rx, p)
        /\ \A i \in 1..Len(projectInfos) :
              IsDefined(projectInfos[i].outDir) => ~InDir(p, projectInfos[i].outDir[1])

\* a recorded file imports a file under node_modules, a file in its project's
\* output directory, a file a --package regex matches and an ordinary file:
\* only the last is in its edge sets
C16_Witness ==
    /\ Ax \in DOMAIN importedFiles
    /\ world.packageRegexes # {}
    /\ \A t \in {Pm, Oo, Gg, Ay} : \E e \in world.edges : e.src = Ax /\ e.dst = t
    /\ AllTargets(importedFiles[Ax]) = {Ay}
    /\ \E i \in 1..Len(projectInfos) :
          IsDefined(projectInfos[i].outDir) /\ InDir(Oo, projectInfos[i].outDir[1])

-----------------------------------------------------------------------------
(* C17: back-edges *)

\* no activation of readProjects is running: every top-level call made so far
\* has returned
ReadProjectsReturned == stack = <<>> /\ pc # "config" /\ pc # "configDone"

\* C17: whenever the top-level readProjects calls made so far have returned,
\* Q is in P.referencedFrom exactly when P is in Q.projectReferences, for all
\* registered P and Q, and both sets hold registered projects only.
C17_ReferencedFromIsInverse ==
    ReadProjectsReturned =>
        /\ \A i, j \in 1..Len(projectInfos) :
              projectInfos[j].configPath \in projectInfos[i].referencedFrom
                 <=> projectInfos[i].configPath \in projectInfos[j].projectReferences
        /\ \A i \in 1..Len(projectInfos) :
              /\ projectInfos[i].referencedFrom \subseteq RegisteredPaths
              /\ projectInfos[i].projectReferences \subseteq RegisteredPaths

\* the first top-level call has returned and registered four projects, one of
\* them referenced from two others and one referencing two others
C17_Witness ==
    /\ ReadProjectsReturned
    /\ pc = "read"
    /\ entryIdx = 2
    /\ Len(projectInfos) = 4
    /\ \E i \in 1..Len(projectInfos) : Cardinality(projectInfos[i].referencedFrom) = 2
    /\ \E i \in 1..Len(projectInfos) : Cardinality(projectInfos[i].projectReferences) = 2

-----------------------------------------------------------------------------
(* C18: ownership by directory *)

\* C18 as stated: every root file of a project lies inside the project's
\* directory; a file of a sibling directory whose name only begins with the
\* name of the project's directory is in no root-file set of that project.
C18_RootFilesInsideProjectDir ==
    \A i \in 1..Len(projectInfos) :
        \A f \in projectInfos[i].rootFiles : InDir(f, projectInfos[i].projectDir)

-----------------------------------------------------------------------------
(* C19: termination of processProjects *)

\* the projects not yet recorded as done
Undone == {i \in 1..Len(projectInfos) : projectInfos[i].configPath \notin projectsDone}

\* a bound on the steps the loop of processProjects can still take: every
\* extraction lowers it by paying one undone project, every skipped project
\* and every new pass lowers it by one
Variant ==
    Cardinality(Undone) * (Len(projectInfos) + 2)
        + (IF allDone THEN 0 ELSE Len(projectInfos) + 1)
        + (Len(projectInfos) + 1 - passIdx)

\* C19: in every registry readProjects produces, each member of
\* P.referencedFrom was registered after P (so the relation has no cycle);
\* every step inside the loop of processProjects lowers a natural-number
\* bound, so the loop takes finitely many steps; a new pass is started only
\* after a pass that extracted a project, and the loop is left after a pass
\* that extracted none.
C19_ProcessProjectsTerminates ==
    /\ [](\A i, j \in 1..Len(projectInfos) :
             projectInfos[j].configPath \in projectInfos[i].referencedFrom => i < j)
    /\ [](pc = "process" => passIdx \in 1..(Len(projectInfos) + 1))
    /\ [][(pc = "process" /\ pc' = "process") => Variant' < Variant]_vars
    /\ [][(pc = "process" /\ passIdx > Len(projectInfos))
             => IF allDone THEN pc' = "output" /\ buildLog' = buildLog
                           ELSE pc' = "process" /\ passIdx' = 1 /\ allDone'
                                /\ buildLog # <<>>]_vars
    /\ [][(pc = "process" /\ allDone' # allDone)
             => (allDone' <=> buildLog' = buildLog)]_vars

\* processProjects has returned after four passes: three that each extracted
\* at least one project of a chain of references, and one that extracted none
C19_Witness ==
    /\ pc = "output"
    /\ allDone
    /\ Len(buildLog) = 3
    /\ Undone = {}
    /\ \E i \in 1..Len(projectInfos) : Cardinality(projectInfos[i].referencedFrom) = 2

-----------------------------------------------------------------------------
(* C20: closure of the dependency graph *)

\* C20 as stated: once processProjects has returned (no assertion failed, no
\* configuration error), every file in an edge set of the global map is a key
\* of the map.
C20_GraphClosed ==
    ProcessReturned =>
        \A f \in DOMAIN importedFiles :
            \A k \in Kinds : importedFiles[f][k] \subseteq DOMAIN importedFiles

=============================================================================
